---- MODULE Spec2Model ----
(***************************************************************************)
(* Model of bodylog.py, a Streamlit health-metrics log.                    *)
(*                                                                         *)
(* Every interaction reruns the script top to bottom: the three JSON files *)
(* are loaded, legacy entries get ids, the form handler runs if the form   *)
(* was submitted, the table and the chart series are computed, and one of  *)
(* the delete buttons may act.  A session is one browser tab running the   *)
(* script.                                                                 *)
(*                                                                         *)
(* Encoding.  A JSON value is a tagged record (JNum, JStr, JNull).  A      *)
(* string is a sequence of one-character strings.  A mapping (dict) is a   *)
(* function whose DOMAIN is its key set.  Decimal metrics (temp, sugar,    *)
(* weight, waist, bmi) are held in hundredths of their unit, integer       *)
(* metrics and the height (whole cm) as they are.  A timestamp is a day    *)
(* number and an hour; its ISO string is "DDTHH".                          *)
(***************************************************************************)
EXTENDS Integers, Sequences, FiniteSets, Bags, TLC

VARIABLES
    file,       \* DATA_FILE: the persisted "entries" list
    cfgFile,    \* CONFIG_FILE as found on disk
    profFile,   \* PROFILE_FILE as found on disk
    widgets,    \* the query widgets: start_d, end_d, kw
    DB,         \* per session: DB["entries"] of the running script
    pc,         \* per session: where the script run is
    nextId,     \* number of uuid4 values drawn so far
    out,        \* what the last step showed to the user
    live,       \* history: bag of entries appended and not deleted (ids stripped)
    evRow, evThr, evFlags, evPc   \* evaluator harness: inputs, output, position

vars == <<file, cfgFile, profFile, widgets, DB, pc, nextId, out, live,
          evRow, evThr, evFlags, evPc>>

storeVars == <<file, cfgFile, profFile, widgets, DB, pc, nextId, out, live>>
evalVars  == <<evRow, evThr, evFlags, evPc>>

-----------------------------------------------------------------------------
(* Bounds *)

MaxEntries     == 3    \* entries a collection holds at most
MaxFormEntries == 1    \* the same, in the specification of the form
MaxId          == 3    \* uuid4 values drawn at most
MaxLegacy      == 1    \* entries of a collection written before ids existed
MaxBpLen       == 3    \* length of an enumerated blood-pressure text
MaxStored      == 2    \* entries of a collection that was not written by the form
MaxAppends     == 2    \* entries appended at most, with two sessions

\* the dates and times of day a record can carry: two days, one with a
\* one-digit and one with a two-digit number, and two hours likewise
Days     == {9, 10}
Hours    == {8, 12}
FirstDay == CHOOSE d \in Days : \A e \in Days : d <= e
LastDay  == CHOOSE d \in Days : \A e \in Days : d >= e
Sessions == {1, 2}

-----------------------------------------------------------------------------
(* JSON values and strings *)

JNum(n) == [t |-> "num", v |-> n]
JStr(s) == [t |-> "str", v |-> s]
JNull   == [t |-> "null", v |-> 0]

\* isinstance(v, (int, float))
IsNumber(v) == v.t = "num"

\* d.get(k): the value, or None
Get(d, k) == IF k \in DOMAIN d THEN d[k] ELSE JNull

\* the code point of a character
Ord == [c \in {" ", "+", "/", "0", "1", "2", "3", "4", "5", "6", "7", "8", "9",
               "T", "a", "b", "x"} |->
          CASE c = " " -> 32 [] c = "+" -> 43 [] c = "/" -> 47
            [] c = "0" -> 48 [] c = "1" -> 49 [] c = "2" -> 50 [] c = "3" -> 51
            [] c = "4" -> 52 [] c = "5" -> 53 [] c = "6" -> 54 [] c = "7" -> 55
            [] c = "8" -> 56 [] c = "9" -> 57
            [] c = "T" -> 84 [] c = "a" -> 97 [] c = "b" -> 98 [] c = "x" -> 120]

DigitChars == {"0", "1", "2", "3", "4", "5", "6", "7", "8", "9"}
DigitVal(c) == Ord[c] - 48
DigitChar(n) == CHOOSE c \in DigitChars : DigitVal(c) = n

\* Python's < on str: lexicographic by code point
RECURSIVE StrLess(_, _)
StrLess(a, b) ==
    IF b = <<>> THEN FALSE
    ELSE IF a = <<>> THEN TRUE
    ELSE IF Ord[Head(a)] # Ord[Head(b)] THEN Ord[Head(a)] < Ord[Head(b)]
    ELSE StrLess(Tail(a), Tail(b))

\* str.strip(): drop leading and trailing whitespace
RECURSIVE LStrip(_)
LStrip(s) == IF s # <<>> /\ Head(s) = " " THEN LStrip(Tail(s)) ELSE s
RECURSIVE RStrip(_)
RStrip(s) == IF s # <<>> /\ s[Len(s)] = " " THEN RStrip(SubSeq(s, 1, Len(s) - 1)) ELSE s
Strip(s) == RStrip(LStrip(s))

\* kw in memo: substring test
Contains(s, sub) ==
    \E i \in 1..(Len(s) + 1) :
        /\ i + Len(sub) - 1 <= Len(s)
        /\ SubSeq(s, i, i + Len(sub) - 1) = sub

\* the decimal digits of a natural number
RECURSIVE Decimal(_)
Decimal(n) == IF n < 10 THEN <<DigitChar(n)>>
              ELSE Append(Decimal(n \div 10), DigitChar(n % 10))

\* str(v) of a JSON value
ToStr(v) == IF v.t = "str" THEN v.v
            ELSE IF v.t = "num" THEN Decimal(v.v)
            ELSE <<"N", "o", "n", "e">>

\* int(s) of a text: [ok, n]; the text is stripped, then all digits
RECURSIVE DigitsValue(_)
DigitsValue(s) == IF s = <<>> THEN 0
                  ELSE 10 * DigitsValue(SubSeq(s, 1, Len(s) - 1)) + DigitVal(s[Len(s)])
ParseInt(s) ==
    LET t == Strip(s) IN
    IF t # <<>> /\ \A i \in 1..Len(t) : t[i] \in DigitChars
    THEN [ok |-> TRUE, n |-> DigitsValue(t)]
    ELSE [ok |-> FALSE, n |-> 0]

-----------------------------------------------------------------------------
(* Defaults *)

DEFAULT_THRESHOLDS ==
    [bp_sys_hi |-> 140, bp_dia_hi |-> 90, bp_sys_very |-> 180, bp_dia_very |-> 120,
     hr_lo |-> 50, hr_hi |-> 120,
     temp_hi |-> 3850,
     sugar_hi |-> 18000, sugar_very |-> 24000, sugar_lo |-> 6000,
     spo2_lo |-> 92,
     rr_lo |-> 10, rr_hi |-> 24]

DEFAULT_CONFIG ==
    [metrics |-> <<"bp", "hr", "temp", "sugar">>, thresholds |-> DEFAULT_THRESHOLDS]

\* METRIC_META[m]["type"]
METRIC_META ==
    [bp |-> "text", hr |-> "int", temp |-> "float", sugar |-> "float",
     spo2 |-> "int", rr |-> "int", weight |-> "float", waist |-> "float",
     bmi |-> "float"]

PLOT_META == {"hr", "temp", "sugar", "spo2", "rr", "weight", "bmi", "bp_sys", "bp_dia"}

-----------------------------------------------------------------------------
(* Logic helpers *)

\* parse_bp: the two components, or (None, None)
parse_bp(bp_str) ==
    LET slashes == {i \in 1..Len(bp_str) : bp_str[i] = "/"} IN
    IF Cardinality(slashes) # 1 THEN [ok |-> FALSE, s |-> 0, d |-> 0]
    ELSE
        LET k == CHOOSE i \in slashes : TRUE
            s == ParseInt(SubSeq(bp_str, 1, k - 1))
            d == ParseInt(SubSeq(bp_str, k + 1, Len(bp_str)))
        IN  IF s.ok /\ d.ok THEN [ok |-> TRUE, s |-> s.n, d |-> d.n]
            ELSE [ok |-> FALSE, s |-> 0, d |-> 0]

\* the flags, in the order the rules append them.  The names stand for
\* "혈압 매우 높음", "혈압 높음", "심박 비정상", "고열", "혈당 위험",
\* "혈당 높음", "저산소", "호흡수 이상"; the code joins them with ", ".
BpRule(row, thr) ==
    IF "bp" \in DOMAIN row
    THEN LET p == parse_bp(ToStr(row["bp"])) IN
         IF p.ok /\ p.s # 0 /\ p.d # 0
         THEN IF p.s >= thr.bp_sys_very \/ p.d >= thr.bp_dia_very THEN <<"bp_very">>
              ELSE IF p.s >= thr.bp_sys_hi \/ p.d >= thr.bp_dia_hi THEN <<"bp_hi">>
              ELSE <<>>
         ELSE <<>>
    ELSE <<>>

HrRuleLe(row, thr) ==
    IF IsNumber(Get(row, "hr")) /\ (row["hr"].v <= thr.hr_lo \/ row["hr"].v > thr.hr_hi)
    THEN <<"hr_abn">> ELSE <<>>

HrRule(row, thr) ==
    IF IsNumber(Get(row, "hr")) /\ (row["hr"].v < thr.hr_lo \/ row["hr"].v > thr.hr_hi)
    THEN <<"hr_abn">> ELSE <<>>

TempRule(row, thr) ==
    IF IsNumber(Get(row, "temp")) /\ row["temp"].v >= thr.temp_hi
    THEN <<"fever">> ELSE <<>>

SugarRule(row, thr) ==
    IF IsNumber(Get(row, "sugar"))
    THEN IF row["sugar"].v >= thr.sugar_very \/ row["sugar"].v <= thr.sugar_lo
         THEN <<"sugar_danger">>
         ELSE IF row["sugar"].v >= thr.sugar_hi THEN <<"sugar_hi">>
         ELSE <<>>
    ELSE <<>>

Spo2Rule(row, thr) ==
    IF IsNumber(Get(row, "spo2")) /\ row["spo2"].v < thr.spo2_lo
    THEN <<"low_oxygen">> ELSE <<>>

RrRule(row, thr) ==
    IF IsNumber(Get(row, "rr")) /\ (row["rr"].v < thr.rr_lo \/ row["rr"].v > thr.rr_hi)
    THEN <<"rr_abn">> ELSE <<>>

abnormal_flags(row, thr) ==
    BpRule(row, thr) \o HrRule(row, thr) \o TempRule(row, thr)
        \o SugarRule(row, thr) \o Spo2Rule(row, thr) \o RrRule(row, thr)

-----------------------------------------------------------------------------
(* Evaluator harness: abnormal_flags applied to one row and threshold set *)

\* a threshold set with small limits, so that short texts cross them
SMALL_THRESHOLDS ==
    [bp_sys_hi |-> 2, bp_dia_hi |-> 3, bp_sys_very |-> 9, bp_dia_very |-> 9,
     hr_lo |-> 49, hr_hi |-> 50,
     temp_hi |-> 3849,
     sugar_hi |-> 6001, sugar_very |-> 18000, sugar_lo |-> 5999,
     spo2_lo |-> 91,
     rr_lo |-> 9, rr_hi |-> 10]

ThresholdSets == {DEFAULT_THRESHOLDS, SMALL_THRESHOLDS}

BpChars == {"0", "2", "3", "9", "/", " ", "x"}

RECURSIVE TextsOfLen(_)
TextsOfLen(n) ==
    IF n = 0 THEN {<<>>}
    ELSE {Append(s, c) : s \in TextsOfLen(n - 1), c \in BpChars}

BpTexts ==
    UNION {TextsOfLen(n) : n \in 0..MaxBpLen}
      \cup {<<"1", "9", "0", "/", "7", "0">>, <<"1", "2", "0", "/", "8", "0">>,
            <<"1", "5", "0", "/", "8", "0">>, <<"0", "/", "1", "3", "0">>,
            <<"1", "2", "0", "/", "8", "0", "/", "1">>}

\* rows with a blood-pressure field only
BpRows == {("bp" :> v) : v \in {JStr(s) : s \in BpTexts} \cup {JNum(120), JNull}}

\* what a stored numeric field can hold; Absent stands for a missing key
Absent == [t |-> "absent", v |-> 0]

FieldValues(m) ==
    {Absent, JStr(<<"x">>)} \cup
    {JNum(n) : n \in
        CASE m = "hr"    -> {49, 50, 120, 121}
          [] m = "temp"  -> {3849, 3850}
          [] m = "sugar" -> {6000, 6001, 18000, 24000}
          [] m = "spo2"  -> {91, 92}
          [] m = "rr"    -> {9, 10, 24, 25}
          [] m = "bp"    -> {}}

\* the mapping without its Absent fields
Present(r) == [m \in {k \in DOMAIN r : r[k] # Absent} |-> r[m]]

\* rows over the numeric fields, with a few blood pressures
NumericRows ==
    {Present(r) : r \in
        [bp : {Absent, JStr(<<"1", "9", "0", "/", "7", "0">>),
               JStr(<<"1", "5", "0", "/", "8", "0">>)},
         hr : FieldValues("hr"), temp : FieldValues("temp"),
         sugar : FieldValues("sugar"), spo2 : FieldValues("spo2"),
         rr : FieldValues("rr")]}

EvalRows == BpRows \cup NumericRows

InitEval ==
    /\ evRow \in EvalRows
    /\ evThr \in ThresholdSets
    /\ evFlags = <<>>
    /\ evPc = "ready"

IdleEval ==
    /\ evRow = <<>>
    /\ evThr = DEFAULT_THRESHOLDS
    /\ evFlags = <<>>
    /\ evPc = "off"

Evaluate ==
    /\ evPc = "ready"
    /\ evFlags' = abnormal_flags(evRow, evThr)
    /\ evPc' = "done"
    /\ UNCHANGED <<evRow, evThr>>
    /\ UNCHANGED storeVars

-----------------------------------------------------------------------------
(* IO helpers *)

\* a file on disk: absent, present but not JSON, or a JSON document
NoFile      == [kind |-> "absent", value |-> <<>>]
GarbageFile == [kind |-> "garbage", value |-> <<>>]
JsonFile(v) == [kind |-> "json", value |-> v]

load_json(path, default) == IF path.kind = "json" THEN path.value ELSE default

CFG     == load_json(cfgFile, DEFAULT_CONFIG)
PROFILE == load_json(profFile, [height_cm |-> JNull])

\* CFG.get("metrics", DEFAULT_CONFIG["metrics"]) or []
active_metrics == IF "metrics" \in DOMAIN CFG THEN CFG["metrics"] ELSE DEFAULT_CONFIG.metrics

Range(seq) == {seq[i] : i \in DOMAIN seq}

\* make_plot_options(active_metrics) or ["hr"]
make_plot_options(metrics) ==
    LET opts == (IF "bp" \in Range(metrics) THEN {"bp_sys", "bp_dia"} ELSE {})
                  \cup (Range(metrics) \cap PLOT_META)
    IN  IF opts = {} THEN {"hr"} ELSE opts

-----------------------------------------------------------------------------
(* Timestamps *)

Pad2(n) == <<DigitChar(n \div 10), DigitChar(n % 10)>>

\* record_datetime.isoformat(timespec="seconds")
isoformatNoPad(day, hour) == Decimal(day) \o <<"T">> \o Decimal(hour)

isoformat(day, hour) == Pad2(day) \o <<"T">> \o Pad2(hour)

AllDigits(s) == \A i \in 1..Len(s) : s[i] \in DigitChars

\* the text is a date and a time of day, "DDTHH"
IsDateTime(s) ==
    /\ Len(s) = 5 /\ s[3] = "T"
    /\ AllDigits(SubSeq(s, 1, 2)) /\ AllDigits(SubSeq(s, 4, 5))
    /\ DigitsValue(SubSeq(s, 1, 2)) \in 1..31
    /\ DigitsValue(SubSeq(s, 4, 5)) \in 0..23

\* datetime.fromisoformat(v) inside try/except: [ok, day, hour, aware].  A
\* value that is no str, or a text that is no date, raises and is caught
\* (ok is FALSE).  A text that ends in a UTC offset, "DDTHH+ZZ", gives a
\* datetime with a tzinfo (aware is TRUE), every other one a naive datetime.
fromisoformat(v) ==
    IF v.t # "str" THEN [ok |-> FALSE, day |-> 0, hour |-> 0, aware |-> FALSE]
    ELSE LET s == v.v IN
         IF IsDateTime(s)
         THEN [ok |-> TRUE, day |-> DigitsValue(SubSeq(s, 1, 2)),
               hour |-> DigitsValue(SubSeq(s, 4, 5)), aware |-> FALSE]
         ELSE IF /\ Len(s) = 8 /\ IsDateTime(SubSeq(s, 1, 5)) /\ s[6] = "+"
                 /\ AllDigits(SubSeq(s, 7, 8)) /\ DigitsValue(SubSeq(s, 7, 8)) \in 0..23
         THEN [ok |-> TRUE, day |-> DigitsValue(SubSeq(s, 1, 2)),
               hour |-> DigitsValue(SubSeq(s, 4, 5)), aware |-> TRUE]
         ELSE IF Len(s) = 2 /\ AllDigits(s) /\ DigitsValue(s) \in 1..31
         THEN [ok |-> TRUE, day |-> DigitsValue(s), hour |-> 0, aware |-> FALSE]
         ELSE [ok |-> FALSE, day |-> 0, hour |-> 0, aware |-> FALSE]

\* start_dt <= ts <= end_dt with naive bounds: comparing a naive with an aware
\* datetime raises TypeError
Aware(e) == "ts" \in DOMAIN e /\ fromisoformat(e["ts"]).ok /\ fromisoformat(e["ts"]).aware

\* a datetime as a number of hours, so that <= is the order of datetimes
DtKey(day, hour) == day * 24 + hour

\* datetime.combine(d, datetime.min.time()), datetime.combine(d, datetime.max.time())
DayStart(d) == DtKey(d, 0)
DayEnd(d)   == DtKey(d, 23)

\* the entry's timestamp parses and start_dt <= ts <= end_dt
InRange(e, start_d, end_d) ==
    /\ "ts" \in DOMAIN e
    /\ LET ts == fromisoformat(e["ts"]) IN
       /\ ts.ok
       /\ DayStart(start_d) <= DtKey(ts.day, ts.hour)
       /\ DtKey(ts.day, ts.hour) <= DayEnd(end_d)

-----------------------------------------------------------------------------
(* The entry collection *)

\* uuid4().hex: the k-th value drawn, different from every other one
Uuid(k) == <<"u">> \o Decimal(k)

\* list.sort(key=lambda x: x["ts"], reverse=...): a stable sort, so entries
\* with equal keys keep their order
RECURSIVE InsertSorted(_, _, _)
InsertSorted(sorted, e, reverse) ==
    IF sorted = <<>> THEN <<e>>
    ELSE IF (IF reverse THEN StrLess(Head(sorted)["ts"].v, e["ts"].v)
                        ELSE StrLess(e["ts"].v, Head(sorted)["ts"].v))
         THEN <<e>> \o sorted
         ELSE <<Head(sorted)>> \o InsertSorted(Tail(sorted), e, reverse)

RECURSIVE StableSort(_, _)
StableSort(entries, reverse) ==
    IF entries = <<>> THEN <<>>
    ELSE InsertSorted(StableSort(SubSeq(entries, 1, Len(entries) - 1), reverse),
                      entries[Len(entries)], reverse)

SortAsc(entries) == StableSort(entries, FALSE)

\* a sort through a mapping keyed by the timestamp: one entry for each key
SortDescDistinct(entries) ==
    LET l == StableSort(entries, TRUE)
        F[i \in 0..Len(l)] ==
            IF i = 0 THEN <<>>
            ELSE IF \E j \in 1..(i - 1) : l[j]["ts"] = l[i]["ts"] THEN F[i - 1]
            ELSE Append(F[i - 1], l[i])
    IN  F[Len(l)]

\* DB["entries"].sort(key=lambda x: x["ts"], reverse=True)
SortDesc(entries) == StableSort(entries, TRUE)

\* what the sort of line 329 raises, for a list that holds a str key (the
\* entry just appended has one): KeyError when the key function finds no "ts",
\* TypeError when a key that is no str is compared with a str
SortError(entries) ==
    IF \E i \in DOMAIN entries : "ts" \notin DOMAIN entries[i] THEN "KeyError"
    ELSE IF Len(entries) >= 2 /\ \E i \in DOMAIN entries : entries[i]["ts"].t # "str"
    THEN "TypeError"
    ELSE "none"

\* the orders a list can be left in by a sort that raised
Rearranged(entries) ==
    {[i \in DOMAIN entries |-> entries[p[i]]] :
        p \in {q \in [DOMAIN entries -> DOMAIN entries] :
                  \A i, j \in DOMAIN entries : q[i] = q[j] => i = j}}

\* migrate_ids: every entry without an id gets the next uuid4 value
RECURSIVE migrate_ids(_, _)
migrate_ids(entries, drawn) ==
    IF entries = <<>> THEN <<>>
    ELSE IF "id" \in DOMAIN Head(entries)
         THEN <<Head(entries)>> \o migrate_ids(Tail(entries), drawn)
         ELSE <<Head(entries) @@ ("id" :> JStr(Uuid(drawn + 1)))>>
                  \o migrate_ids(Tail(entries), drawn + 1)

\* the number of entries migrate_ids changes
Changed(entries) == Cardinality({i \in DOMAIN entries : "id" \notin DOMAIN entries[i]})

StripId(e) == [k \in DOMAIN e \ {"id"} |-> e[k]]

\* the bag of the entries of a list, ids left out
SeqBag(entries) ==
    LET es == {StripId(entries[i]) : i \in DOMAIN entries} IN
    [x \in es |-> Cardinality({i \in DOMAIN entries : StripId(entries[i]) = x})]

-----------------------------------------------------------------------------
(* The entry form *)

\* what a widget of render_metric returns: a text_input the text typed ("" when
\* left alone), a number_input with min_value=0 the number typed (0 when left
\* alone)
WidgetValues(m) ==
    CASE m = "bp"     -> {JStr(<<>>), JStr(<<"1", "9", "0", "/", "7", "0">>)}
      [] m = "hr"     -> {JNum(0), JNum(80)}
      [] m = "temp"   -> {JNum(0)}
      [] m = "sugar"  -> {JNum(0), JNum(10000)}
      [] m = "spo2"   -> {JNum(0), JNum(98)}
      [] m = "rr"     -> {JNum(0), JNum(16)}
      [] m = "weight" -> {JNum(0), JNum(6800)}
      [] m = "waist"  -> {JNum(0), JNum(8000)}
      [] m = "bmi"    -> {JNum(0), JNum(2200)}

\* the values dict after the loop over active_metrics
FormValues ==
    LET ms == Range(active_metrics) IN
    {f \in [ms -> UNION {WidgetValues(m) : m \in ms}] : \A m \in ms : f[m] \in WidgetValues(m)}

MemoInputs == {<<>>, <<" ">>, <<"a", " ">>}

\* truth value of PROFILE.get("height_cm")
Truthy(v) == v.t = "num" /\ v.v # 0

\* round(a / b, 2) of two positive quantities whose quotient is in hundredths
RoundDiv(a, b) == (2 * a + b) \div (2 * b)

\* the entry the handler builds from the form
BuildEntry(day, hour, values, memo) ==
    LET kept == {m \in Range(active_metrics) :
                    ~ ((values[m].t = "str" /\ Strip(values[m].v) = <<>>) \/ values[m] = JNull)}
        e1 == ("ts" :> JStr(isoformat(day, hour))) @@ [m \in kept |-> values[m]]
        height == Get(PROFILE, "height_cm")
        e2 == IF /\ Truthy(height)
                 /\ "weight" \in DOMAIN e1
                 /\ "bmi" \in Range(active_metrics)
                 /\ "bmi" \notin DOMAIN e1
                 /\ height.v > 0
              THEN e1 @@ ("bmi" :> JNum(RoundDiv(e1["weight"].v * 10000, height.v * height.v)))
              ELSE e1
    IN  IF Strip(memo) # <<>> THEN e2 @@ ("memo" :> JStr(Strip(memo))) ELSE e2

-----------------------------------------------------------------------------
(* One run of the script *)

\* lines 174-189: load the files, give ids to the entries that lack one
Load(s) ==
    /\ pc[s] = "idle"
    /\ nextId + Changed(file) <= MaxId
    /\ LET entries == migrate_ids(file, nextId) IN
       /\ DB' = [DB EXCEPT ![s] = entries]
       /\ file' = IF Changed(file) > 0 THEN entries ELSE file
       /\ nextId' = nextId + Changed(file)
       /\ out' = [op |-> "load", migrated |-> Changed(file)]
    /\ pc' = [pc EXCEPT ![s] = "form"]
    /\ UNCHANGED <<cfgFile, profFile, widgets, live>>
    /\ UNCHANGED evalVars

\* lines 311-340: the form was submitted
SubmitN(s, cap) ==
    /\ pc[s] = "form"
    /\ Len(DB[s]) < cap
    /\ nextId + 1 <= MaxId
    /\ \E day \in Days, hour \in Hours, values \in FormValues, memo \in MemoInputs :
         LET entry == BuildEntry(day, hour, values, memo)
             appended == Append(DB[s], entry)
             entries == SortDesc(appended)
         IN  IF SortError(appended) # "none"
             THEN \* line 329 raises: nothing is saved and the run ends
                  /\ DB' \in {[DB EXCEPT ![s] = l] : l \in Rearranged(appended)}
                  /\ out' = [op |-> "submit", entry |-> entry, values |-> values,
                             error |-> SortError(appended), flags |-> <<>>]
                  /\ pc' = [pc EXCEPT ![s] = "idle"]
                  /\ UNCHANGED <<file, live>>
             ELSE
             /\ DB' = [DB EXCEPT ![s] = entries]
             /\ file' = entries
             /\ live' = live (+) SetToBag({entry})
             /\ IF "thresholds" \in DOMAIN CFG
                THEN /\ out' = [op |-> "submit", entry |-> entry, values |-> values, error |-> "none",
                                flags |-> abnormal_flags(entry, CFG["thresholds"])]
                     /\ pc' = [pc EXCEPT ![s] = "views"]
                ELSE /\ out' = [op |-> "submit", entry |-> entry, values |-> values, error |-> "KeyError",
                                flags |-> <<>>]
                     /\ pc' = [pc EXCEPT ![s] = "idle"]
    /\ UNCHANGED <<cfgFile, profFile, widgets, nextId>>
    /\ UNCHANGED evalVars

Submit(s) == SubmitN(s, MaxEntries)

KwInputs == {<<>>, <<"a">>}

\* the query widgets as the user can set them
Widgets == [start_d : Days, end_d : Days, kw : KwInputs]

\* the widgets showing every day of the model, no keyword
AllDaysWidgets == [start_d |-> FirstDay, end_d |-> LastDay, kw |-> <<>>]

\* lines 371-379: the entry is shown in the table
Qualifies(r, start_d, end_d, kw) ==
    /\ InRange(r, start_d, end_d)
    /\ ~ (kw # <<>> /\ ~ Contains(ToStr(IF "memo" \in DOMAIN r THEN r["memo"] ELSE JStr(<<>>)), kw))

\* lines 380-387: the table row of an entry
TableRow(r, thr) ==
    LET ts == fromisoformat(r["ts"])
        shown == DOMAIN r \cap DOMAIN METRIC_META
    IN  ("date" :> <<ts.day, ts.hour>>) @@ ("warn" :> abnormal_flags(r, thr))
            @@ [m \in shown |-> r[m]]
            @@ (IF "memo" \in DOMAIN r THEN ("memo" :> r["memo"]) ELSE <<>>)

\* lines 413-422: the value an entry contributes to the series, if any
SeriesValue(r, metric) ==
    IF metric \in {"bp_sys", "bp_dia"}
    THEN IF "bp" \in DOMAIN r
         THEN LET p == parse_bp(ToStr(r["bp"])) IN
              IF p.ok THEN [ok |-> TRUE, v |-> IF metric = "bp_sys" THEN p.s ELSE p.d]
              ELSE [ok |-> FALSE, v |-> 0]
         ELSE [ok |-> FALSE, v |-> 0]
    ELSE IF IsNumber(Get(r, metric)) THEN [ok |-> TRUE, v |-> r[metric].v]
         ELSE [ok |-> FALSE, v |-> 0]

\* lines 405-422: the (timestamp, value) pairs of the chart
Series(entries, start_d, end_d, metric) ==
    LET Plotted(r) == InRange(r, start_d, end_d) /\ SeriesValue(r, metric).ok
        rs == SelectSeq(entries, Plotted)
    IN  [i \in DOMAIN rs |->
            LET ts == fromisoformat(rs[i]["ts"]) IN
            <<<<ts.day, ts.hour>>, SeriesValue(rs[i], metric).v>>]

\* lines 370-387: what the table loop raises, at the first entry that makes
\* it raise: TypeError at line 376 for an aware timestamp, KeyError at line 384
\* for a row to show when the config has no thresholds
TableError(entries, start_d, end_d, kw) ==
    LET bad == {i \in DOMAIN entries :
                   \/ Aware(entries[i])
                   \/ ("thresholds" \notin DOMAIN CFG /\ Qualifies(entries[i], start_d, end_d, kw))}
    IN  IF bad = {} THEN "none"
        ELSE IF Aware(entries[CHOOSE i \in bad : \A j \in bad : i <= j]) THEN "TypeError"
        ELSE "KeyError"

\* lines 370-452: the table and the chart, computed in every run.  A run that
\* gets past the table holds no aware timestamp, so the comparisons of the
\* chart loop and of the delete tabs (lines 410, 469, 511) do not raise.
Query(s) ==
    /\ pc[s] \in {"form", "views"}
    /\ \E metric \in make_plot_options(active_metrics) :
         LET start_d == widgets.start_d
             end_d == widgets.end_d
             kw == widgets.kw
             Shown(r) == Qualifies(r, start_d, end_d, kw)
             qualifying == SelectSeq(DB[s], Shown)
             series == Series(DB[s], start_d, end_d, metric)
             ask == [op |-> "query", start |-> start_d, end |-> end_d, kw |-> kw,
                     metric |-> metric]
             tableError == TableError(DB[s], start_d, end_d, kw)
         IN  IF tableError # "none"
             THEN /\ out' = ask @@ [error |-> tableError, series |-> <<>>, rows |-> <<>>]
                  /\ pc' = [pc EXCEPT ![s] = "idle"]
             ELSE IF "thresholds" \in DOMAIN CFG
             THEN /\ out' = ask @@ [error |-> "none", series |-> series,
                                    rows |-> [i \in DOMAIN qualifying |->
                                                TableRow(qualifying[i], CFG["thresholds"])]]
                  /\ pc' = [pc EXCEPT ![s] = IF pc[s] = "views" THEN "done" ELSE "tabs"]
             ELSE IF series # <<>>
             THEN /\ out' = ask @@ [error |-> "KeyError", series |-> series, rows |-> <<>>]
                  /\ pc' = [pc EXCEPT ![s] = "idle"]
             ELSE /\ out' = ask @@ [error |-> "none", series |-> <<>>, rows |-> <<>>]
                  /\ pc' = [pc EXCEPT ![s] = IF pc[s] = "views" THEN "done" ELSE "tabs"]
    /\ UNCHANGED <<file, cfgFile, profFile, widgets, DB, nextId, live>>
    /\ UNCHANGED evalVars

\* lines 461-486: the ids of the checked rows, in row order, None dropped
CheckedIds(entries, checked) ==
    LET Picked(i) == i \in checked /\ "id" \in DOMAIN entries[i]
        idx == SelectSeq([i \in DOMAIN entries |-> i], Picked)
    IN  [k \in DOMAIN idx |-> entries[idx[k]]["id"]]

\* lines 464-475: the rows offered for selection, those of the last 30 days
Offered(entries, cutoff) ==
    {i \in DOMAIN entries :
        /\ "ts" \in DOMAIN entries[i]
        /\ LET ts == fromisoformat(entries[i]["ts"]) IN
           ts.ok /\ ~ (DtKey(ts.day, ts.hour) < cutoff)}

\* lines 487-492: "delete the selected rows"
DeleteByIdsKeepIn(entries, ids_to_del) ==
    LET Kept(e) == Get(e, "id") \in Range(ids_to_del) IN SelectSeq(entries, Kept)

DeleteByIdsList(entries, ids_to_del) ==
    LET Kept(e) == Get(e, "id") \notin Range(ids_to_del) IN SelectSeq(entries, Kept)

DeleteByIds(s) ==
    /\ pc[s] = "tabs"
    /\ \E cutoff \in {DayStart(d) : d \in Days}, checked \in SUBSET DOMAIN DB[s] :
         LET ids_to_del == CheckedIds(DB[s], checked) IN
         /\ checked \subseteq Offered(DB[s], cutoff)
         /\ Len(ids_to_del) # 0
         /\ DB' = [DB EXCEPT ![s] = DeleteByIdsList(DB[s], ids_to_del)]
         /\ file' = DeleteByIdsList(DB[s], ids_to_del)
         /\ out' = [op |-> "del_sel", ids |-> ids_to_del, count |-> Len(ids_to_del)]
         /\ LET Named(e) == Get(e, "id") \in Range(ids_to_del) IN
            live' = live (-) SeqBag(SelectSeq(file, Named))
    /\ pc' = [pc EXCEPT ![s] = "idle"]
    /\ UNCHANGED <<cfgFile, profFile, widgets, nextId>>
    /\ UNCHANGED evalVars

\* lines 505-512: the entries of the range
Candidates(entries, del_start, del_end) ==
    LET Hit(e) == InRange(e, del_start, del_end) IN SelectSeq(entries, Hit)

SameContent(a, b) ==
    [k \in DOMAIN a \ {"id", "ts"} |-> a[k]] = [k \in DOMAIN b \ {"id", "ts"} |-> b[k]]

DeleteByRangeListByContent(entries, cand) ==
    LET Kept(e) == ~ \E i \in DOMAIN cand : SameContent(cand[i], e) IN SelectSeq(entries, Kept)

\* line 517: [e for e in DB["entries"] if e not in cand]
DeleteByRangeList(entries, cand) ==
    LET Kept(e) == ~ \E i \in DOMAIN cand : cand[i] = e IN SelectSeq(entries, Kept)

DeleteByRange(s) ==
    /\ pc[s] = "tabs"
    /\ \E del_start \in Days, del_end \in Days :
         LET cand == Candidates(DB[s], del_start, del_end) IN
         /\ DB' = [DB EXCEPT ![s] = DeleteByRangeList(DB[s], cand)]
         /\ file' = DeleteByRangeList(DB[s], cand)
         /\ out' = [op |-> "del_rng", start |-> del_start, end |-> del_end,
                    cand |-> cand, count |-> Len(cand)]
         /\ live' = [x \in {y \in DOMAIN live : ~ InRange(y, del_start, del_end)} |-> live[x]]
    /\ pc' = [pc EXCEPT ![s] = "idle"]
    /\ UNCHANGED <<cfgFile, profFile, widgets, nextId>>
    /\ UNCHANGED evalVars

\* lines 525-529: "delete all records"
DeleteAll(s) ==
    /\ pc[s] = "tabs"
    /\ DB' = [DB EXCEPT ![s] = <<>>]
    /\ file' = <<>>
    /\ out' = [op |-> "del_all"]
    /\ live' = EmptyBag
    /\ pc' = [pc EXCEPT ![s] = "idle"]
    /\ UNCHANGED <<cfgFile, profFile, widgets, nextId>>
    /\ UNCHANGED evalVars

\* the script reaches its last line with no delete button pressed
EndRun(s) ==
    /\ pc[s] \in {"tabs", "done"}
    /\ pc' = [pc EXCEPT ![s] = "idle"]
    /\ UNCHANGED <<file, cfgFile, profFile, widgets, DB, nextId, out, live>>
    /\ UNCHANGED evalVars

-----------------------------------------------------------------------------
(* Specifications *)

\* entries written before ids existed; one of them has a text that is no date
LegacyEntries ==
    {("ts" :> JStr(t)) @@ ("hr" :> JNum(80)) :
        t \in {isoformat(d, h) : d \in Days, h \in Hours} \cup {<<"x">>}}

LegacyFiles ==
    {f \in UNION {[1..n -> LegacyEntries] : n \in 0..MaxLegacy} : SortDesc(f) = f}

\* a config the user saved with every metric unchecked: the form has the memo,
\* the date and the time only
MemoOnlyConfig == JsonFile([metrics |-> <<>>, thresholds |-> DEFAULT_THRESHOLDS])

InitStore ==
    /\ DB = [s \in Sessions |-> <<>>]
    /\ pc = [s \in Sessions |-> "idle"]
    /\ nextId = 0
    /\ out = [op |-> "none"]
    /\ live = SeqBag(file)

\* the entry collection, one session
Init ==
    /\ file \in LegacyFiles
    /\ cfgFile = MemoOnlyConfig
    /\ profFile = NoFile
    /\ widgets = AllDaysWidgets
    /\ InitStore
    /\ IdleEval

Next ==
    \E s \in {1} :
        \/ Load(s)
        \/ Submit(s)
        \/ Query(s)
        \/ DeleteByIds(s)
        \/ DeleteByRange(s)
        \/ DeleteAll(s)
        \/ EndRun(s)

Spec == Init /\ [][Next]_vars

\* the evaluator alone
InitEvalOnly ==
    /\ file = <<>>
    /\ cfgFile = NoFile
    /\ profFile = NoFile
    /\ widgets = AllDaysWidgets
    /\ InitStore
    /\ InitEval

NextEval == Evaluate

SpecEval == InitEvalOnly /\ [][NextEval]_vars

\* the config files: none, one that is not JSON, and documents with and
\* without the "metrics" and the "thresholds" key
ConfigFiles ==
    {NoFile, GarbageFile,
     JsonFile(<<>>),
     JsonFile([thresholds |-> DEFAULT_THRESHOLDS]),
     JsonFile([metrics |-> <<"weight", "bmi">>]),
     JsonFile([metrics |-> <<"weight", "bmi">>, thresholds |-> DEFAULT_THRESHOLDS]),
     JsonFile([metrics |-> <<"hr", "weight">>, thresholds |-> DEFAULT_THRESHOLDS])}

\* the profile files: none, no height, height 0, height 170 cm
ProfileFiles ==
    {NoFile, JsonFile([height_cm |-> JNull]), JsonFile([height_cm |-> JNum(0)]),
     JsonFile([height_cm |-> JNum(170)])}

\* the form and the views, one session, the collection empty at first
InitForm ==
    /\ file = <<>>
    /\ cfgFile \in ConfigFiles
    /\ profFile \in ProfileFiles
    /\ "weight" \notin Range(active_metrics) => profFile = NoFile
    /\ widgets \in {w \in Widgets : w.start_d = FirstDay}
    /\ InitStore
    /\ IdleEval

NextForm ==
    \E s \in {1} :
        \/ Load(s)
        \/ SubmitN(s, MaxFormEntries)
        \/ Query(s)
        \/ EndRun(s)

SpecForm == InitForm /\ [][NextForm]_vars

\* the timestamps a stored entry can have when the file was written by hand
\* or by another program: none, a number, null, a text that is no date, a
\* date-time with a UTC offset, and the date-times the form writes
StoredTimestamps ==
    {Absent, JNum(5), JNull, JStr(<<"x">>),
     JStr(isoformat(FirstDay, 8) \o <<"+", "0", "9">>),
     JStr(isoformat(FirstDay, 8)), JStr(isoformat(LastDay, 12))}

\* the i-th entry of such a file: an id, a heart rate and the timestamp
StoredEntry(i, ts) ==
    Present([id |-> JStr(<<"m", DigitChar(i)>>), hr |-> JNum(80), ts |-> ts])

\* the files: any order when a key is missing or no text, and the order the
\* sort of the form leaves otherwise
StoredFiles ==
    {f \in UNION {{[i \in 1..n |-> StoredEntry(i, t[i])] : t \in [1..n -> StoredTimestamps]} :
                    n \in 0..MaxStored} :
        SortError(f) = "none" => SortDesc(f) = f}

\* the entry collection with stored entries of every kind, one session
InitStored ==
    /\ file \in StoredFiles
    /\ cfgFile = MemoOnlyConfig
    /\ profFile = NoFile
    /\ widgets = AllDaysWidgets
    /\ InitStore
    /\ IdleEval

SpecStored == InitStored /\ [][Next]_vars

\* the entry collection, two sessions: each runs the script on its own copy
\* and saves the whole file; no delete button is pressed
InitTwo ==
    /\ file = <<>>
    /\ cfgFile = MemoOnlyConfig
    /\ profFile = NoFile
    /\ widgets = AllDaysWidgets
    /\ InitStore
    /\ IdleEval

SubmitTwo(s) ==
    /\ BagCardinality(live) < MaxAppends
    /\ Submit(s)

NextTwo ==
    \E s \in Sessions :
        \/ Load(s)
        \/ SubmitTwo(s)
        \/ Query(s)
        \/ EndRun(s)

SpecTwo == InitTwo /\ [][NextTwo]_vars

-----------------------------------------------------------------------------
(* The entry collection: what is persisted *)

\* the parsed timestamp of an entry as a number of hours
TsKey(e) == LET ts == fromisoformat(e["ts"]) IN DtKey(ts.day, ts.hour)

Parses(e) == "ts" \in DOMAIN e /\ fromisoformat(e["ts"]).ok

\* C1: after any sequence of submits and deletes the persisted collection is
\* in descending order of timestamp, most recent first, and holds exactly the
\* entries that were appended and not deleted.
C1_SortedAndExact ==
    /\ \A i, j \in DOMAIN file :
          (i < j /\ Parses(file[i]) /\ Parses(file[j])) => TsKey(file[i]) >= TsKey(file[j])
    /\ SeqBag(file) = live

\* an entry was appended with a later timestamp than the one before it in the
\* collection, after an entry that had an id was deleted
C1_Witness ==
    /\ out.op = "submit"
    /\ pc[1] = "views"
    /\ Len(file) >= 2
    /\ "id" \notin DOMAIN file[1]
    /\ TsKey(file[1]) > TsKey(file[2])
    /\ nextId > Len(file) - 1

\* C2: in every state persisted by a submit, every entry of the persisted
\* collection, the new one included, carries an id, and no two share an id.
C2_AppendAssignsId ==
    out.op = "submit" =>
        /\ \A i \in DOMAIN file : "id" \in DOMAIN file[i]
        /\ \A i, j \in DOMAIN file :
              (i # j /\ "id" \in DOMAIN file[i] /\ "id" \in DOMAIN file[j])
                  => file[i]["id"] # file[j]["id"]

C4_DeleteByRangeExact ==
    [][\A s \in Sessions :
         (pc[s] = "tabs" /\ pc'[s] = "idle" /\ out'.op = "del_rng") =>
            LET Stays(e) == ~ InRange(e, out'.start, out'.end) IN
            /\ file' = SelectSeq(file, Stays)
            /\ out'.count = Len(file) - Len(file')]_vars

\* a delete by range removed an entry and left one with the same field values
\* and another timestamp
C4_Witness ==
    /\ out.op = "del_rng"
    /\ out.count >= 1
    /\ \E i \in DOMAIN file, k \in DOMAIN out.cand :
          /\ SameContent(file[i], out.cand[k])
          /\ file[i]["ts"] # out.cand[k]["ts"]

\* a delete by range left an entry whose timestamp does not parse
C4_WitnessUnparsed ==
    /\ out.op = "del_rng"
    /\ out.count >= 1
    /\ \E i \in DOMAIN file : ~ Parses(file[i])

\* the timestamp of the entry is missing, no text, no date, or has an offset
Malformed(e) == ~ Parses(e) \/ Aware(e)

\* C11: with stored entries whose timestamp is missing, not a string,
\* unparseable or with a UTC offset, submit and the table/series query
\* complete without raising and the submitted entry is persisted; no such
\* entry is a table row, a series point or a candidate of the range delete;
\* and every such entry stays in the persisted collection, unchanged, through
\* every step but "delete all".
C11_MalformedTolerated ==
    [][/\ out'.op \in {"submit", "query"} => out'.error = "none"
       /\ (out'.op = "submit" /\ out' # out) =>
              \E i \in DOMAIN file' : file'[i] = out'.entry
       /\ out'.op = "query" =>
              /\ Len(out'.rows) <= Cardinality({i \in DOMAIN file : ~ Malformed(file[i])})
              /\ Len(out'.series) <= Cardinality({i \in DOMAIN file : ~ Malformed(file[i])})
       /\ out'.op = "del_rng" =>
              \A i \in DOMAIN out'.cand : ~ Malformed(out'.cand[i])
       /\ out'.op # "del_all" =>
              \A i \in DOMAIN file :
                  Malformed(file[i]) =>
                      \E j \in DOMAIN file' : StripId(file'[j]) = StripId(file[i])]_vars

\* C12: with two sessions and no delete, a step of a session whose copy is
\* the persisted collection (no other session has saved since it loaded)
\* loses no appended entry, which is the case of every step of a single
\* session; a submit of a session that loaded before the other one saved
\* can lose one (C12_LostUpdate).
C12_CurrentCopyKeeps ==
    [][\A s \in Sessions :
         (/\ pc'[s] # pc[s]
          /\ pc[s] = "idle" \/ DB[s] = file
          /\ live \sqsubseteq SeqBag(file))
            => live' \sqsubseteq SeqBag(file')]_vars

\* the last submit reported no error and its entry is persisted, and an entry
\* that the other session appended and persisted before is not in the
\* persisted collection
C12_LostUpdate ==
    /\ out.op = "submit" /\ out.error = "none"
    /\ \E i \in DOMAIN file : file[i] = out.entry
    /\ \E x \in DOMAIN live : x \notin DOMAIN SeqBag(file)

-----------------------------------------------------------------------------
(* The evaluator *)

\* C5: when the blood-pressure field parses to (S, D), zero components
\* included, the "very high" flag is emitted iff S >= critical-systolic or
\* D >= critical-diastolic, otherwise the "high" flag iff S >= high-systolic or
\* D >= high-diastolic; a field that does not parse gives no flag.
C5_BpFlagRule ==
    (evPc = "done" /\ "bp" \in DOMAIN evRow) =>
        LET p == parse_bp(ToStr(evRow["bp"]))
            very == p.ok /\ (p.s >= evThr.bp_sys_very \/ p.d >= evThr.bp_dia_very)
            high == p.ok /\ ~ very /\ (p.s >= evThr.bp_sys_hi \/ p.d >= evThr.bp_dia_hi)
        IN  /\ ("bp_very" \in Range(evFlags)) <=> very
            /\ ("bp_hi" \in Range(evFlags)) <=> high

\* the rule a flag belongs to, in the order of the rules
FlagRule ==
    [f \in {"bp_very", "bp_hi", "hr_abn", "fever", "sugar_danger", "sugar_hi",
            "low_oxygen", "rr_abn"} |->
        CASE f \in {"bp_very", "bp_hi"} -> 1
          [] f = "hr_abn" -> 2
          [] f = "fever" -> 3
          [] f \in {"sugar_danger", "sugar_hi"} -> 4
          [] f = "low_oxygen" -> 5
          [] f = "rr_abn" -> 6]

\* the field is present and numeric
Numeric(row, m) == m \in DOMAIN row /\ row[m].t = "num"

\* C6: the output has at most one flag per rule, in the order blood pressure,
\* heart rate, temperature, sugar, oxygen, respiration; never both
\* blood-pressure flags nor both sugar flags; and each of the five numeric
\* flags is there iff its field is present, numeric and crosses its threshold.
C6_FlagsPerRule ==
    evPc = "done" =>
        LET fl == Range(evFlags) IN
        /\ \A i, j \in DOMAIN evFlags : i < j => FlagRule[evFlags[i]] < FlagRule[evFlags[j]]
        /\ ("hr_abn" \in fl) <=>
              (Numeric(evRow, "hr")
                 /\ (evRow["hr"].v < evThr.hr_lo \/ evRow["hr"].v > evThr.hr_hi))
        /\ ("fever" \in fl) <=>
              (Numeric(evRow, "temp") /\ evRow["temp"].v >= evThr.temp_hi)
        /\ ("sugar_danger" \in fl) <=>
              (Numeric(evRow, "sugar")
                 /\ (evRow["sugar"].v >= evThr.sugar_very \/ evRow["sugar"].v <= evThr.sugar_lo))
        /\ ("sugar_hi" \in fl) <=>
              (Numeric(evRow, "sugar")
                 /\ ~ (evRow["sugar"].v >= evThr.sugar_very \/ evRow["sugar"].v <= evThr.sugar_lo)
                 /\ evRow["sugar"].v >= evThr.sugar_hi)
        /\ ("low_oxygen" \in fl) <=>
              (Numeric(evRow, "spo2") /\ evRow["spo2"].v < evThr.spo2_lo)
        /\ ("rr_abn" \in fl) <=>
              (Numeric(evRow, "rr")
                 /\ (evRow["rr"].v < evThr.rr_lo \/ evRow["rr"].v > evThr.rr_hi))

\* a row that raises a flag of every rule, next to a field that is no number
C6_Witness ==
    /\ evPc = "done"
    /\ evFlags = <<"bp_very", "hr_abn", "fever", "sugar_danger", "low_oxygen", "rr_abn">>

\* a row whose heart rate is exactly the low limit, and one whose sugar is
\* high but not dangerous: no heart-rate flag, the "high" sugar flag
C6_WitnessBoundary ==
    /\ evPc = "done"
    /\ Numeric(evRow, "hr") /\ evRow["hr"].v = evThr.hr_lo
    /\ "sugar_hi" \in Range(evFlags)
    /\ "spo2" \in DOMAIN evRow /\ evRow["spo2"].t = "str"

-----------------------------------------------------------------------------
(* The form and the views *)

\* the widget was left alone
Unfilled(v) == v = JNum(0) \/ (v.t = "str" /\ Strip(v.v) = <<>>)

\* the conditions under which the body-mass index is to be derived
BmiDue(values, entry) ==
    /\ Truthy(Get(PROFILE, "height_cm"))
    /\ Get(PROFILE, "height_cm").v > 0
    /\ "weight" \in DOMAIN entry
    /\ "bmi" \in Range(active_metrics)
    /\ "bmi" \in DOMAIN values => Unfilled(values["bmi"])

\* C7: on submit, with a positive height in the profile, a weight in the
\* entry, the body-mass index active and not supplied by the user, the saved
\* bmi is weight_kg / height_m^2 rounded to two decimals; with the height
\* absent or 0 the saved entry has no bmi field.
C7_BmiDerived ==
    out.op = "submit" =>
        /\ BmiDue(out.values, out.entry) =>
              /\ "bmi" \in DOMAIN out.entry
              /\ out.entry["bmi"] =
                    JNum(RoundDiv(out.entry["weight"].v * 10000,
                                  PROFILE["height_cm"].v * PROFILE["height_cm"].v))
        /\ (/\ ~ Truthy(Get(PROFILE, "height_cm"))
            /\ "bmi" \in DOMAIN out.values => Unfilled(out.values["bmi"]))
              => "bmi" \notin DOMAIN out.entry

\* C8: the chart series has a point only for entries that qualify under the
\* filter (timestamp in range and keyword in the memo), so every point belongs
\* to an entry that is also a table row.
C8_SeriesFiltered ==
    \A s \in Sessions :
        (out.op = "query" /\ out.error = "none" /\ pc[s] \in {"tabs", "done"}) =>
            \A k \in DOMAIN out.series :
                /\ \E i \in DOMAIN DB[s] :
                      /\ Qualifies(DB[s][i], out.start, out.end, out.kw)
                      /\ SeriesValue(DB[s][i], out.metric).ok
                      /\ out.series[k] = <<<<fromisoformat(DB[s][i]["ts"]).day,
                                            fromisoformat(DB[s][i]["ts"]).hour>>,
                                          SeriesValue(DB[s][i], out.metric).v>>
                /\ \E i \in DOMAIN out.rows : out.rows[i]["date"] = out.series[k][1]

\* C9: in an entry persisted by submit a metric is present only if the user
\* supplied a value or it was derived; a metric left unfilled is absent and
\* contributes no flag.
C9_UnfilledAbsent ==
    out.op = "submit" =>
        LET supplied == {m \in DOMAIN out.values : ~ Unfilled(out.values[m])}
            derived == IF BmiDue(out.values, out.entry) THEN {"bmi"} ELSE {}
        IN  /\ DOMAIN out.entry \cap DOMAIN METRIC_META \subseteq supplied \cup derived
            /\ out.error = "none" =>
                  out.flags = abnormal_flags([m \in supplied |-> out.values[m]],
                                             CFG["thresholds"])

\* the config file gives no thresholds
NoThresholds == cfgFile.kind # "json" \/ "thresholds" \notin DOMAIN cfgFile.value

\* C10: with the config absent, unparseable, or without the thresholds (or the
\* metrics), the flagging at submit and in the table completes, with the
\* default thresholds, and never fails for a missing key.
C10_DefaultsUsed ==
    (NoThresholds \/ "metrics" \notin DOMAIN cfgFile.value) =>
        /\ out.op \in {"submit", "query"} => out.error = "none"
        /\ (out.op = "submit" /\ NoThresholds) =>
              out.flags = abnormal_flags(out.entry, DEFAULT_THRESHOLDS)
        /\ (out.op = "query" /\ NoThresholds) =>
              \A i \in DOMAIN out.rows :
                  out.rows[i]["warn"] = abnormal_flags(out.rows[i], DEFAULT_THRESHOLDS)

====
